---------------------------- MODULE Spec2Model ----------------------------
(***************************************************************************)
(* Model of the cover-letter rendering pipeline of template.py:            *)
(* CoverLetterData.to_dict, CoverLetterGenerator._escape_latex_safe,       *)
(* generate_latex, save_latex, compile_to_pdf_pdflatex and create, and of  *)
(* the menu loop of cli_tool.py that drives it.                            *)
(*                                                                         *)
(* A text is a sequence of one-character strings.  Literal chunks of the   *)
(* template are kept as single multi-character atoms of such a sequence.   *)
(* Paths and console lines are strings.                                    *)
(***************************************************************************)
EXTENDS Integers, Sequences, FiniteSets, TLC

VARIABLES
    fs,              \* files present in the working directory: path -> content
    args,            \* arguments of the create call of the last step
    ret,             \* how that create call ended: returned dict or raised
    console,         \* lines printed during that create call
    calls,           \* compiler invocations made during that create call
    pc,              \* position of the pure-function harnesses
    cover_letter,    \* CoverLetterData given to generate_latex
    processed_data,  \* generate_latex: processed_data
    latex_content,   \* generate_latex: returned text
    text,            \* argument of _escape_latex_safe
    escaped,         \* result of _escape_latex_safe
    api_key,            \* CoverLetterCLI.api_key
    cv_text,            \* CoverLetterCLI.cv_text
    job_listing,        \* CoverLetterCLI.job_listing
    cover_letter_data,  \* CoverLetterCLI.cover_letter_data: <<>> is None
    running,            \* the menu loop has not ended
    last,               \* the last menu choice and what its handler returned
    cli_console,        \* lines the CLI printed for the last menu choice
    generated           \* some generate_cover_letter call has returned True

cli_vars == <<api_key, cv_text, job_listing, cover_letter_data, running, last,
              cli_console, generated>>

vars == <<fs, args, ret, console, calls, pc, cover_letter, processed_data,
          latex_content, text, escaped, api_key, cv_text, job_listing,
          cover_letter_data, running, last, cli_console, generated>>

(***************************************************************************)
(* Bounds                                                                  *)
(***************************************************************************)
MaxLen == 2

\* characters the input texts are built from: the eight characters
\* _escape_latex_safe replaces, the percent sign, the backslash, a letter
Chars == {"&", "$", "#", "_", "{", "}", "~", "^", "%", "\\", "a"}

RECURSIVE SeqsUpTo(_, _)
SeqsUpTo(S, n) ==
    IF n = 0 THEN {<<>>}
    ELSE LET shorter == SeqsUpTo(S, n - 1)
         IN  shorter \cup {Append(s, c) : s \in shorter, c \in S}

Texts == SeqsUpTo(Chars, MaxLen)

(***************************************************************************)
(* Python built-ins                                                        *)
(***************************************************************************)
\* str.replace(old, new) for a one-character old: every occurrence, left to
\* right, the replacement text is not scanned again
RECURSIVE str_replace(_, _, _)
str_replace(s, old, new) ==
    IF s = <<>> THEN <<>>
    ELSE (IF Head(s) = old THEN new ELSE <<Head(s)>>)
         \o str_replace(Tail(s), old, new)

\* {**a, **b}: the keys of both, b's value where both have the key
dict_merge(a, b) ==
    [k \in DOMAIN a \cup DOMAIN b |-> IF k \in DOMAIN b THEN b[k] ELSE a[k]]

(***************************************************************************)
(* Data model                                                              *)
(***************************************************************************)
ContactInfo == {"name", "email", "phone", "address", "linkedin", "github", "role"}

CompanyInfo == {"company", "position", "recipient", "source", "company_news"}

CoverLetterContent ==
    {"opening_salutation", "opening_paragraph", "second_paragraph",
     "closing_paragraph", "closing_salutation", "signoff_paragraph"}

\* to_dict with the company sub-record left out
to_dict_without_company(self) == dict_merge(self.contact, self.content)

\* CoverLetterData.to_dict
to_dict(self) == dict_merge(dict_merge(self.contact, self.company), self.content)

(***************************************************************************)
(* CoverLetterGenerator                                                    *)
(***************************************************************************)
Lit(s) == [kind |-> "lit", arg |-> s]
Pct == [kind |-> "pct", arg |-> ""]
Ph(k) == [kind |-> "ph", arg |-> k]

\* LATEX_TEMPLATE as the % operator reads it: literal text, %% and %(key)s
LATEX_TEMPLATE == <<
    Lit("\n\\documentclass[10pt,letter]{letter}\n\\usepackage[utf8]{inputenc}\n\n"),
    Pct,
    Lit("================================\n"),
    Pct,
    Lit(" FROM TLCcoverletter.sty\n"),
    Pct,
    Lit("================================\n\\usepackage[T1]{fontenc}\n\\usepackage[default,semibold]{sourcesanspro}\n\\usepackage[12pt]{moresize}\n\\usepackage{anyfontsize}\n\\usepackage{csquotes}\n\\usepackage[margin=.5in]{geometry}\n\\usepackage{xcolor}\n\\definecolor{highlight}{RGB}{61, 90, 128}\n\\usepackage{hyperref}\n\\hypersetup{colorlinks=true,urlcolor=highlight}\n\\newcommand{\\bold}[1]{ {\\bfseries #1}}\n\\pagenumbering{gobble}\n\\usepackage{standalone}\n\\usepackage{import}\n\\usepackage[english]{babel}\n\\usepackage{blindtext}\n\\usepackage{fancyhdr}\n\n"),
    Pct,
    Lit("====================\n"),
    Pct,
    Lit(" CONTACT INFORMATION (used by header)\n"),
    Pct,
    Lit("====================\n\\def\\name{"),
    Ph("name"),
    Lit("}\n\\signature{\\name}\n\\address{"),
    Ph("address"),
    Lit(" \\\\ "),
    Ph("phone"),
    Lit(" \\\\ \\detokenize{"),
    Ph("email"),
    Lit("}}\n\\def\\phone{"),
    Ph("phone"),
    Lit("}\n\\def\\email{"),
    Ph("email"),
    Lit("}\n\\def\\LinkedIn{"),
    Ph("linkedin"),
    Lit("}\n\\def\\github{"),
    Ph("github"),
    Lit("}\n\\def\\role{"),
    Ph("role"),
    Lit("}\n\n"),
    Pct,
    Lit("====================\n"),
    Pct,
    Lit(" Company Info\n"),
    Pct,
    Lit("====================\n\\def\\hm{}\n\\def\\position{"),
    Ph("position"),
    Lit("}\n\\def\\company{"),
    Ph("company"),
    Lit("}\n\\def\\source{"),
    Ph("source"),
    Lit("}\n\\def\\companynews{"),
    Ph("company_news"),
    Lit("}\n\n"),
    Pct,
    Lit("==================\n"),
    Pct,
    Lit(" Header file (_header)\n"),
    Pct,
    Lit("==================\n\\fancypagestyle{plain}{"),
    Pct,
    Lit("\n\\fancyhf{}\n\\lhead{\\phone \\\\\n    \\href{mailto:\\email}{\\email}}\n\\chead{"),
    Pct,
    Lit("\n    \\centering {\\Large \\bold\\name} \\\\\n    {\\color{highlight} \\large{\\role}}}\n\\rhead{\n    "),
    Pct,
    Lit("Portfolio: \\href{https://yassinekader.dev}{yassinekader.dev}\\\\\n    \\href{https://github.com/\\github}{github.com/\\github} \\\\\n    \\href{https://www.linkedin.com/in/\\LinkedIn}{linkedin.com/in/\\LinkedIn}}\n\\renewcommand{\\headrulewidth}{2pt}"),
    Pct,
    Lit("\n\\renewcommand{\\headrule}{\\hbox to\\headwidth{"),
    Pct,
    Lit("\n  \\color{highlight}\\leaders\\hrule height \\headrulewidth\\hfill}}\n}\n\\pagestyle{plain}\n\n\\setlength{\\headheight}{90pt}\n\\setlength{\\headsep}{0pt}\n\n\\makeatletter\n\\let\\ps@empty\\ps@plain\n\\let\\ps@firstpage\\ps@plain\n\\makeatother\n\n"),
    Pct,
    Lit("==================\n"),
    Pct,
    Lit(" Document begins\n"),
    Pct,
    Lit("==================\n\\begin{document}\n\\begin{letter}{"),
    Ph("recipient"),
    Lit("}\n\n\\opening{"),
    Ph("opening_salutation"),
    Lit("}\n\n\\setlength\\parindent{.5in}\n\n"),
    Ph("opening_paragraph"),
    Lit("\n\n"),
    Ph("second_paragraph"),
    Lit("\n\n"),
    Ph("closing_paragraph"),
    Lit("\n\n"),
    Ph("signoff_paragraph"),
    Lit("\n\n\\closing{"),
    Ph("closing_salutation"),
    Lit("}\n\n\\end{letter}\n\\end{document}\n")
>>

\* the items of `replacements` with the ~ and ^ rules ahead of the brace rules
replacements_tilde_first == <<
    <<"&", <<"\\", "&">> >>,
    <<"$", <<"\\", "$">> >>,
    <<"#", <<"\\", "#">> >>,
    <<"_", <<"\\", "_">> >>,
    <<"~", <<"\\", "t", "e", "x", "t", "a", "s", "c", "i", "i",
             "t", "i", "l", "d", "e", "{", "}">> >>,
    <<"^", <<"\\", "t", "e", "x", "t", "a", "s", "c", "i", "i",
             "c", "i", "r", "c", "u", "m", "{", "}">> >>,
    <<"{", <<"\\", "{">> >>,
    <<"}", <<"\\", "}">> >> >>

\* keys and replacement texts of _escape_latex_safe, in dict order
replacements == <<
    <<"&", <<"\\", "&">> >>,
    <<"$", <<"\\", "$">> >>,
    <<"#", <<"\\", "#">> >>,
    <<"_", <<"\\", "_">> >>,
    <<"{", <<"\\", "{">> >>,
    <<"}", <<"\\", "}">> >>,
    <<"~", <<"\\", "t", "e", "x", "t", "a", "s", "c", "i", "i",
             "t", "i", "l", "d", "e", "{", "}">> >>,
    <<"^", <<"\\", "t", "e", "x", "t", "a", "s", "c", "i", "i",
             "c", "i", "r", "c", "u", "m", "{", "}">> >> >>

\* the loop of _escape_latex_safe from its i-th item on
RECURSIVE escape_loop(_, _)
escape_loop(t, i) ==
    IF i > Len(replacements) THEN t
    ELSE escape_loop(str_replace(t, replacements[i][1], replacements[i][2]), i + 1)

_escape_latex_safe(t) == escape_loop(t, 1)

\* generate_latex: safe_keys
safe_keys_without_email(letter) == DOMAIN letter.content \cup {"github", "linkedin"}

safe_keys_with_name(letter) ==
    DOMAIN letter.content \cup {"github", "linkedin", "email", "name"}

safe_keys(letter) == DOMAIN letter.content \cup {"github", "linkedin", "email"}

\* generate_latex: the loop body for one key (every value is a str)
process_value(letter, key, value) ==
    LET temp_value == IF key \notin safe_keys(letter)
                      THEN _escape_latex_safe(value)
                      ELSE value
    IN  str_replace(temp_value, "%", <<"%", "%">>)

\* the concatenation of pieces[lo..hi]
RECURSIVE join(_, _, _)
join(pieces, lo, hi) ==
    IF lo > hi THEN <<>>
    ELSE IF lo = hi THEN pieces[lo]
    ELSE LET mid == (lo + hi) \div 2
         IN  join(pieces, lo, mid) \o join(pieces, mid + 1, hi)

\* the keys the %(key)s items of a template name
placeholders(template) ==
    {template[i].arg : i \in {j \in DOMAIN template : template[j].kind = "ph"}}

\* template % mapping: ValueError for a % that starts no known item, KeyError
\* when a named key is missing, else literal text copied, %% turned into %,
\* and str(mapping[key]) put for %(key)s
percent_format(template, mapping) ==
    IF \E i \in DOMAIN template : template[i].kind \notin {"lit", "pct", "ph"}
    THEN [exc |-> "ValueError", text |-> <<>>]
    ELSE IF ~(placeholders(template) \subseteq DOMAIN mapping)
    THEN [exc |-> "KeyError", text |-> <<>>]
    ELSE [exc |-> "",
          text |-> join([i \in DOMAIN template |->
                            CASE template[i].kind = "lit" -> <<template[i].arg>>
                              [] template[i].kind = "pct" -> <<"%">>
                              [] template[i].kind = "ph" -> mapping[template[i].arg]],
                        1, Len(template))]

generate_processed_data(letter) ==
    LET data == to_dict(letter)
    IN  [key \in DOMAIN data |-> process_value(letter, key, data[key])]

generate_latex(letter) ==
    percent_format(LATEX_TEMPLATE, generate_processed_data(letter))

(***************************************************************************)
(* Inputs                                                                  *)
(***************************************************************************)
letter_of(t) ==
    [contact |-> [k \in ContactInfo |-> t],
     company |-> [k \in CompanyInfo |-> t],
     content |-> [k \in CoverLetterContent |-> t]]

with_field(letter, f, t) ==
    [part \in DOMAIN letter |->
        [k \in DOMAIN letter[part] |-> IF k = f THEN t ELSE letter[part][k]]]

FieldNames == ContactInfo \cup CompanyInfo \cup CoverLetterContent

\* letters given to create
Letters == {letter_of(<<"a">>), letter_of(<<"&", "%">>)}

\* letters given to generate_latex alone: one field takes every text
RenderLetters == {with_field(letter_of(<<"a">>), f, t) : f \in FieldNames, t \in Texts}

\* letters the model call returns to generate_cover_letter
LLMLetters ==
    {letter_of(<<"a">>),
     with_field(letter_of(<<"a">>), "company", <<"B", " ", "&">>)}

\* ---- files and the external compiler --------------------------------

EmptyDict == [k \in {} |-> ""]

None == "None"

\* __init__: self.output_dir
output_dir == "cover_letters"

\* timeout=30 of both subprocess.run calls
Timeout == 30

\* a pathlib.Path below the working directory
Path(parent, stem, suffix) == [parent |-> parent, stem |-> stem, suffix |-> suffix]

path_name(p) == p.stem \o p.suffix

path_str(p) == p.parent \o "/" \o path_name(p)

\* Path.resolve() of a relative path, as a string
resolve_str(s) == "/cwd/" \o s

path_resolve(p) == resolve_str(path_str(p))

\* what the compiler writes as <stem>.pdf
PdfContent == <<"%PDF">>

\* what the environment can do when pdflatex is started: the executable is
\* missing, starting it fails otherwise, or the process runs for `duration`
\* (to the limit or past it), may write the pdf, and on exit has `returncode`
\* and has printed `stdout`
NoRun == [kind |-> "none", duration |-> 0, returncode |-> 0, stdout |-> "",
          writes_pdf |-> FALSE]

Stdouts == {"This is pdfTeX", "! Undefined control sequence."}

CompilerRuns ==
    {[kind |-> "process", duration |-> Timeout, returncode |-> rc, stdout |-> o,
      writes_pdf |-> w] : rc \in {0, 1}, o \in Stdouts, w \in BOOLEAN}
    \cup {[kind |-> "process", duration |-> Timeout + 1, returncode |-> 0,
           stdout |-> "", writes_pdf |-> w] : w \in BOOLEAN}
    \cup {[NoRun EXCEPT !.kind = "missing"], [NoRun EXCEPT !.kind = "denied"]}

\* subprocess.run([pdflatex, ...], timeout=30): the files afterwards and
\* either the CompletedProcess or the exception raised; the call is logged
\* with what the compiler found at the path of the .tex file (`source`)
subprocess_run(files, latex_file, run) ==
    LET pdf == path_str(Path(output_dir, latex_file.stem, ".pdf"))
        after == IF run.kind = "process" /\ run.writes_pdf
                 THEN dict_merge(files, pdf :> PdfContent)
                 ELSE files
        exc == CASE run.kind = "missing" -> "FileNotFoundError"
                 [] run.kind = "denied" -> "PermissionError"
                 [] run.kind = "process" /\ run.duration > Timeout -> "TimeoutExpired"
                 [] OTHER -> ""
    IN  [exc |-> exc,
         returncode |-> run.returncode,
         stdout |-> run.stdout,
         fs |-> after,
         call |-> [argv |-> <<"pdflatex", "-interaction=nonstopmode",
                              "-output-directory", output_dir, path_str(latex_file)>>,
                   timeout |-> Timeout,
                   exc |-> exc,
                   duration |-> run.duration,
                   returncode |-> run.returncode,
                   stdout |-> run.stdout,
                   pdf_exists |-> pdf \in DOMAIN after,
                   source |-> IF path_str(latex_file) \in DOMAIN files
                              THEN <<files[path_str(latex_file)]>>
                              ELSE <<>>]]

\* compile_to_pdf_pdflatex: the condition of its if
first_pass_exit_code_only(result, files, pdf_path) == result.returncode = 0

first_pass_always(result, files, pdf_path) == TRUE

first_pass_succeeded(result, files, pdf_path) ==
    result.returncode = 0 /\ path_str(pdf_path) \in DOMAIN files

\* compile_to_pdf_pdflatex: what the else branch prints
failure_lines_without_output(result) ==
    <<"PDF generation failed", "--- pdflatex Error Output ---",
      "-----------------------------">>

failure_lines(result) ==
    <<"PDF generation failed", "--- pdflatex Error Output ---", result.stdout,
      "-----------------------------">>

\* compile_to_pdf_pdflatex: the except clauses, tried in order
except_only_not_found(exc) ==
    IF exc = "FileNotFoundError"
    THEN [caught |-> TRUE,
          lines |-> <<"pdflatex not found. Please install a LaTeX distribution:",
                      "  Windows: https://miktex.org/download",
                      "  macOS: brew install --cask mactex",
                      "  Linux: sudo apt-get install texlive-latex-base texlive-latex-extra">>]
    ELSE [caught |-> FALSE, lines |-> <<>>]

except_catch_all_first(exc) ==
    [caught |-> TRUE, lines |-> <<"An unexpected error occurred: " \o exc>>]

except_clauses(exc) ==
    IF exc = "FileNotFoundError"
    THEN [caught |-> TRUE,
          lines |-> <<"pdflatex not found. Please install a LaTeX distribution:",
                      "  Windows: https://miktex.org/download",
                      "  macOS: brew install --cask mactex",
                      "  Linux: sudo apt-get install texlive-latex-base texlive-latex-extra">>]
    ELSE IF exc = "TimeoutExpired"
    THEN [caught |-> TRUE, lines |-> <<"pdflatex compilation timed out">>]
    ELSE [caught |-> TRUE, lines |-> <<"An unexpected error occurred: " \o exc>>]

\* the try block left by exception `exc` after printing `printed`
compile_except(exc, printed, files, made) ==
    LET h == except_clauses(exc)
    IN  [exc |-> IF h.caught THEN "" ELSE exc,
         value |-> None,
         console |-> printed \o h.lines,
         fs |-> files,
         calls |-> made]

compile_to_pdf_pdflatex(files, latex_file, run1, run2) ==
    LET start == <<"Compiling " \o path_name(latex_file) \o " to PDF using pdflatex...">>
        result == subprocess_run(files, latex_file, run1)
        pdf_path == Path(output_dir, latex_file.stem, ".pdf")
    IN  IF result.exc # ""
        THEN compile_except(result.exc, start, result.fs, <<result.call>>)
        ELSE IF first_pass_succeeded(result, result.fs, pdf_path)
        THEN LET ok == Append(start, "PDF generated successfully: " \o path_str(pdf_path))
                 second == subprocess_run(result.fs, latex_file, run2)
             IN  IF second.exc # ""
                 THEN compile_except(second.exc, ok, second.fs,
                                     <<result.call, second.call>>)
                 ELSE [exc |-> "", value |-> path_str(pdf_path), console |-> ok,
                       fs |-> second.fs, calls |-> <<result.call, second.call>>]
        ELSE [exc |-> "", value |-> None,
              console |-> start \o failure_lines(result),
              fs |-> result.fs, calls |-> <<result.call>>]

\* save_latex with a failing write passed over in silence
save_latex_ignoring_errors(files, latex, filename, write_ok) ==
    LET filepath == Path(output_dir, filename, ".tex")
    IN  [exc |-> "", value |-> filepath,
         fs |-> IF write_ok THEN dict_merge(files, path_str(filepath) :> latex)
                ELSE files,
         console |-> <<"LaTeX file saved: " \o path_resolve(filepath)>>]

\* save_latex: open(filepath, 'w') fails with OSError, or the text is written
save_latex(files, latex, filename, write_ok) ==
    LET filepath == Path(output_dir, filename, ".tex")
    IN  IF ~write_ok
        THEN [exc |-> "OSError", value |-> filepath, fs |-> files, console |-> <<>>]
        ELSE [exc |-> "", value |-> filepath,
              fs |-> dict_merge(files, path_str(filepath) :> latex),
              console |-> <<"LaTeX file saved: " \o path_resolve(filepath)>>]

\* create: the condition of `if export_pdf`
compile_wanted_always(export_pdf) == TRUE

compile_wanted(export_pdf) == export_pdf

\* generate_latex reads nothing but its argument: its value for each letter
\* create is given, computed once
latex_of == [letter \in Letters \cup LLMLetters |-> generate_latex(letter)]

Raised(exc, files, printed, made) ==
    [ret |-> [kind |-> "raise", exc |-> exc, value |-> EmptyDict],
     fs |-> files, console |-> printed, calls |-> made]

Returned(results, files, printed, made) ==
    [ret |-> [kind |-> "return", exc |-> "", value |-> results],
     fs |-> files, console |-> printed, calls |-> made]

create(files, letter, filename, export_pdf, write_ok, run1, run2) ==
    LET latex == latex_of[letter]
        saved == save_latex(files, latex.text, filename, write_ok)
        results == "latex" :> path_str(saved.value)
        pdf == compile_to_pdf_pdflatex(saved.fs, saved.value, run1, run2)
    IN  IF latex.exc # "" THEN Raised(latex.exc, files, <<>>, <<>>)
        ELSE IF saved.exc # "" THEN Raised(saved.exc, saved.fs, saved.console, <<>>)
        ELSE IF ~compile_wanted(export_pdf)
        THEN Returned(results, saved.fs, saved.console, <<>>)
        ELSE IF pdf.exc # ""
        THEN Raised(pdf.exc, pdf.fs, saved.console \o pdf.console, pdf.calls)
        ELSE IF pdf.value # None
        THEN Returned(dict_merge(results, "pdf" :> resolve_str(pdf.value)),
                      pdf.fs, saved.console \o pdf.console, pdf.calls)
        ELSE Returned(results, pdf.fs, saved.console \o pdf.console, pdf.calls)

(***************************************************************************)
(* Calls                                                                   *)
(***************************************************************************)
Filenames == {"cover_letter_Acme", "cover_letter_Beta_Co"}

NoArgs == [cover_letter |-> letter_of(<<>>), filename |-> "", export_pdf |-> FALSE,
           write_ok |-> FALSE]

NoRet == [kind |-> "none", exc |-> "", value |-> EmptyDict]

NoLatex == [exc |-> "", text |-> <<>>]

NoChoice == [op |-> "none", result |-> ""]

\* no CoverLetterCLI has been constructed
NoCLI ==
    /\ api_key = ""
    /\ cv_text = ""
    /\ job_listing = ""
    /\ cover_letter_data = <<>>
    /\ running = FALSE
    /\ last = NoChoice
    /\ cli_console = <<>>
    /\ generated = FALSE

(***************************************************************************)
(* The generator used by a caller: any sequence of create calls            *)
(***************************************************************************)
Init ==
    /\ fs = EmptyDict
    /\ args = NoArgs
    /\ ret = NoRet
    /\ console = <<>>
    /\ calls = <<>>
    /\ pc = "create"
    /\ cover_letter = letter_of(<<>>)
    /\ processed_data = EmptyDict
    /\ latex_content = NoLatex
    /\ text = <<>>
    /\ escaped = <<>>
    /\ NoCLI

Create ==
    \E letter \in Letters, filename \in Filenames, export_pdf \in BOOLEAN,
       write_ok \in BOOLEAN :
      \E run1 \in (IF export_pdf /\ write_ok THEN CompilerRuns ELSE {NoRun}) :
        \E run2 \in (IF run1.kind = "process" /\ run1.duration <= Timeout
                       /\ run1.returncode = 0
                    THEN CompilerRuns ELSE {NoRun}) :
          LET r == create(fs, letter, filename, export_pdf, write_ok, run1, run2)
          IN  /\ pc = "create"
              /\ fs' = r.fs
              /\ args' = [cover_letter |-> letter, filename |-> filename,
                          export_pdf |-> export_pdf, write_ok |-> write_ok]
              /\ ret' = r.ret
              /\ console' = r.console
              /\ calls' = r.calls
              /\ UNCHANGED <<pc, cover_letter, processed_data, latex_content,
                             text, escaped>>
              /\ UNCHANGED cli_vars

Next == Create

Spec == Init /\ [][Next]_vars

(***************************************************************************)
(* generate_latex applied to one letter                                    *)
(***************************************************************************)
InitRender ==
    /\ fs = EmptyDict
    /\ args = NoArgs
    /\ ret = NoRet
    /\ console = <<>>
    /\ calls = <<>>
    /\ pc = "generate_latex"
    /\ cover_letter \in RenderLetters
    /\ processed_data = EmptyDict
    /\ latex_content = NoLatex
    /\ text = <<>>
    /\ escaped = <<>>
    /\ NoCLI

GenerateLatex ==
    /\ pc = "generate_latex"
    /\ processed_data' = generate_processed_data(cover_letter)
    /\ latex_content' = generate_latex(cover_letter)
    /\ pc' = "done"
    /\ UNCHANGED <<fs, args, ret, console, calls, cover_letter, text, escaped>>
    /\ UNCHANGED cli_vars

NextRender == GenerateLatex

SpecRender == InitRender /\ [][NextRender]_vars

(***************************************************************************)
(* _escape_latex_safe applied to one text                                  *)
(***************************************************************************)
InitEscape ==
    /\ fs = EmptyDict
    /\ args = NoArgs
    /\ ret = NoRet
    /\ console = <<>>
    /\ calls = <<>>
    /\ pc = "_escape_latex_safe"
    /\ cover_letter = letter_of(<<>>)
    /\ processed_data = EmptyDict
    /\ latex_content = NoLatex
    /\ text \in Texts
    /\ escaped = <<>>
    /\ NoCLI

EscapeLatexSafe ==
    /\ pc = "_escape_latex_safe"
    /\ escaped' = _escape_latex_safe(text)
    /\ pc' = "done"
    /\ UNCHANGED <<fs, args, ret, console, calls, cover_letter, processed_data,
                   latex_content, text>>
    /\ UNCHANGED cli_vars

NextEscape == EscapeLatexSafe

SpecEscape == InitEscape /\ [][NextEscape]_vars

(***************************************************************************)
(* cli_tool.py: CoverLetterCLI                                             *)
(*                                                                         *)
(* cv_text, job_listing and api_key are strings.  cover_letter_data is     *)
(* <<>> for None and <<letter>> for a CoverLetterData.  The saved-CV and   *)
(* saved-instruction files and custom_instruction are left out: they reach *)
(* generate_cover_letter only as arguments of the model call, whose        *)
(* outcome is left open here.                                              *)
(***************************************************************************)
\* the str a text stands for
RECURSIVE text_str(_)
text_str(t) == IF t = <<>> THEN "" ELSE Head(t) \o text_str(Tail(t))

\* d.get(key): None when the key is absent
dict_get(d, key) == IF key \in DOMAIN d THEN d[key] ELSE None

\* value or default, for a str value
py_or(t, default) == IF t = <<>> THEN default ELSE text_str(t)

ApiKeys == {"", "key"}

CvTexts == {"", "cv"}

\* a job listing: nothing, blank lines only, or a text
JobListings == {"", " ", "job"}

\* what self.chain.invoke can do: raise, return a CoverLetterData, or return
\* None (an answer the structured-output parser finds no data in)
LLMOutcomes ==
    {[kind |-> "raise", message |-> "quota exceeded", data |-> <<>>],
     [kind |-> "return", message |-> "", data |-> <<>>]}
    \cup {[kind |-> "return", message |-> "", data |-> <<l>>] : l \in LLMLetters}

\* generate_cover_letter: `not self.cv_text or not self.job_listing`
inputs_missing_job_only(cv, job) == job = ""

inputs_missing(cv, job) == cv = "" \/ job = ""

\* generate_cover_letter: the except clause, with the stored letter dropped
generate_except_clearing(data, outcome) ==
    [exit |-> FALSE, result |-> "False", cover_letter_data |-> <<>>,
     console |-> <<"Error generating cover letter: " \o outcome.message>>]

\* generate_cover_letter: the except clause; the assignment to
\* self.cover_letter_data was not reached
generate_except(data, outcome) ==
    [exit |-> FALSE, result |-> "False", cover_letter_data |-> data,
     console |-> <<"Error generating cover letter: " \o outcome.message>>]

\* generate_cover_letter: sys.exit(1) without a key, False without a CV or a
\* job listing, else the model call: its value is stored and True returned,
\* or its exception is reported and False returned
generate_cover_letter(key, cv, job, data, outcome) ==
    IF key = ""
    THEN [exit |-> TRUE, result |-> "SystemExit", cover_letter_data |-> data,
          console |-> <<"GOOGLE_API_KEY not set. Please set it in your environment.">>]
    ELSE IF inputs_missing(cv, job)
    THEN [exit |-> FALSE, result |-> "False", cover_letter_data |-> data,
          console |-> <<"Please provide both CV and job listing!">>]
    ELSE IF outcome.kind = "raise"
    THEN generate_except(data, outcome)
    ELSE [exit |-> FALSE, result |-> "True", cover_letter_data |-> outcome.data,
          console |-> <<>>]

\* show_menu, choice 4: the line printed after generate_cover_letter returned
generate_report(result) ==
    IF result = "True" THEN <<"Cover letter generated successfully!">>
    ELSE IF result = "False" THEN <<"Failed to generate cover letter.">>
    ELSE <<>>

\* display_cover_letter: what is shown of the stored letter
display_cover_letter(data) ==
    IF data = <<>> THEN <<"No cover letter generated yet!">>
    ELSE LET contact == data[1].contact
             company == data[1].company
             content == data[1].content
         IN  <<"Cover Letter Preview",
               py_or(contact["name"], "-"), py_or(contact["role"], "-"),
               py_or(contact["email"], "-"), py_or(contact["phone"], "-"),
               py_or(contact["address"], "-"), py_or(contact["linkedin"], "-"),
               py_or(contact["github"], "-"),
               py_or(company["company"], "-"), py_or(company["position"], "-"),
               py_or(company["recipient"], "-"), py_or(company["source"], "-"),
               py_or(company["company_news"], "-"),
               py_or(content["opening_salutation"], ""),
               py_or(content["opening_paragraph"], ""),
               py_or(content["second_paragraph"], ""),
               py_or(content["closing_paragraph"], ""),
               py_or(content["signoff_paragraph"], ""),
               py_or(content["closing_salutation"], "")>>

\* export_cover_letter: f"cover_letter_{company.replace(' ', '_')}"
export_filename(letter) ==
    "cover_letter_" \o text_str(str_replace(letter.company["company"], " ", <<"_">>))

\* export_cover_letter: the line printed after create returned
export_report(results) == <<"Cover letter saved to " \o dict_get(results, "pdf")>>

\* export_cover_letter, after create: its exception passed on, or its
\* result reported
export_result(letter, filename, write_ok, r) ==
    [exc |-> r.ret.exc,
     args |-> [cover_letter |-> letter, filename |-> filename,
               export_pdf |-> TRUE, write_ok |-> write_ok],
     created |-> r,
     lines |-> IF r.ret.kind = "raise" THEN <<>> ELSE export_report(r.ret.value)]

\* export_cover_letter: nothing but a message without a letter; else create
\* with export_pdf=True
export_cover_letter(data, files, write_ok, run1, run2) ==
    IF data = <<>>
    THEN [exc |-> "", args |-> NoArgs,
          created |-> [ret |-> NoRet, fs |-> files, console |-> <<>>,
                       calls |-> <<>>],
          lines |-> <<"No cover letter generated yet!">>]
    ELSE export_result(data[1], export_filename(data[1]), write_ok,
                       create(files, data[1], export_filename(data[1]), TRUE,
                              write_ok, run1, run2))

\* get_cv_input: pasted text is taken as it is; text extracted from an
\* existing PDF is taken when there is any; "use saved" changes nothing
get_cv_input(cv, method, pasted, save, exists, extracted) ==
    CASE method = "paste" ->
           [cv_text |-> pasted,
            console |-> IF save THEN <<"CV saved!">> ELSE <<>>]
      [] method = "upload" /\ exists /\ extracted # "" ->
           [cv_text |-> extracted,
            console |-> <<"Successfully extracted text from cv.pdf">>]
      [] method = "upload" /\ exists /\ extracted = "" ->
           [cv_text |-> cv, console |-> <<>>]
      [] method = "upload" /\ ~exists ->
           [cv_text |-> cv, console |-> <<"File not found!">>]
      [] method = "use_saved" /\ cv # "" ->
           [cv_text |-> cv, console |-> <<"Using saved CV">>]
      [] OTHER ->
           [cv_text |-> cv, console |-> <<"No saved CV available!">>]

\* str.strip() of a job listing
str_strip(s) == IF s = " " THEN "" ELSE s

\* get_job_input: the pasted text is stored, blank or not
get_job_input(pasted) ==
    [job_listing |-> pasted,
     console |-> IF str_strip(pasted) = "" THEN <<"No job listing provided!">>
                 ELSE <<>>]

\* main: except Exception
fatal_error(exc) == <<"Fatal error: " \o exc>>

\* show_welcome
show_welcome(key) ==
    IF key # "" THEN <<"API Key configured">>
    ELSE <<"Set GOOGLE_API_KEY environment variable">>

(***************************************************************************)
(* The menu loop: any sequence of menu choices                             *)
(***************************************************************************)
InitCLI ==
    /\ fs = EmptyDict
    /\ args = NoArgs
    /\ ret = NoRet
    /\ console = <<>>
    /\ calls = <<>>
    /\ pc = "menu"
    /\ cover_letter = letter_of(<<>>)
    /\ processed_data = EmptyDict
    /\ latex_content = NoLatex
    /\ text = <<>>
    /\ escaped = <<>>
    /\ api_key \in ApiKeys
    /\ cv_text \in CvTexts
    /\ job_listing = ""
    /\ cover_letter_data = <<>>
    /\ running = TRUE
    /\ last = NoChoice
    /\ cli_console = show_welcome(api_key)
    /\ generated = FALSE

\* a menu choice whose handler does not call create
NoCreateCall ==
    /\ args' = NoArgs
    /\ ret' = NoRet
    /\ console' = <<>>
    /\ calls' = <<>>
    /\ UNCHANGED <<fs, pc, cover_letter, processed_data, latex_content, text,
                   escaped>>

AtMenu == pc = "menu" /\ running

GetCvInput ==
    \E method \in {"paste", "upload", "use_saved"}, pasted \in CvTexts,
       save \in BOOLEAN, exists \in BOOLEAN, extracted \in CvTexts :
      LET r == get_cv_input(cv_text, method, pasted, save, exists, extracted)
      IN  /\ AtMenu
          /\ cv_text' = r.cv_text
          /\ cli_console' = r.console
          /\ last' = [op |-> "get_cv_input", result |-> "None"]
          /\ NoCreateCall
          /\ UNCHANGED <<api_key, job_listing, cover_letter_data, running,
                         generated>>

GetJobInput ==
    \E pasted \in JobListings :
      LET r == get_job_input(pasted)
      IN  /\ AtMenu
          /\ job_listing' = r.job_listing
          /\ cli_console' = r.console
          /\ last' = [op |-> "get_job_input", result |-> "None"]
          /\ NoCreateCall
          /\ UNCHANGED <<api_key, cv_text, cover_letter_data, running,
                         generated>>

GetCustomInstruction ==
    \E given \in BOOLEAN :
      /\ AtMenu
      /\ cli_console' = IF given THEN <<"Custom instruction recorded!">>
                        ELSE <<"No custom instruction provided">>
      /\ last' = [op |-> "get_custom_instruction", result |-> "None"]
      /\ NoCreateCall
      /\ UNCHANGED <<api_key, cv_text, job_listing, cover_letter_data, running,
                     generated>>

GenerateCoverLetter ==
    \E outcome \in LLMOutcomes :
      LET g == generate_cover_letter(api_key, cv_text, job_listing,
                                     cover_letter_data, outcome)
      IN  /\ AtMenu
          /\ cover_letter_data' = g.cover_letter_data
          /\ running' = ~g.exit
          /\ cli_console' = g.console \o generate_report(g.result)
          /\ last' = [op |-> "generate_cover_letter", result |-> g.result]
          /\ generated' = (generated \/ g.result = "True")
          /\ NoCreateCall
          /\ UNCHANGED <<api_key, cv_text, job_listing>>

DisplayCoverLetter ==
    /\ AtMenu
    /\ cli_console' = display_cover_letter(cover_letter_data)
    /\ last' = [op |-> "display_cover_letter", result |-> "None"]
    /\ NoCreateCall
    /\ UNCHANGED <<api_key, cv_text, job_listing, cover_letter_data, running,
                   generated>>

\* the menu step made of an export_cover_letter call that ended as `e`
Exported(e) ==
    /\ fs' = e.created.fs
    /\ args' = e.args
    /\ ret' = e.created.ret
    /\ console' = e.created.console
    /\ calls' = e.created.calls
    /\ cli_console' = IF e.exc # "" THEN fatal_error(e.exc) ELSE e.lines
    /\ running' = (e.exc = "")
    /\ last' = [op |-> "export_cover_letter",
                result |-> IF e.exc # "" THEN e.exc ELSE "None"]
    /\ UNCHANGED <<pc, cover_letter, processed_data, latex_content, text,
                   escaped>>
    /\ UNCHANGED <<api_key, cv_text, job_listing, cover_letter_data, generated>>

ExportCoverLetter ==
    \E write_ok \in (IF cover_letter_data = <<>> THEN {TRUE} ELSE BOOLEAN) :
      \E run1 \in (IF cover_letter_data # <<>> /\ write_ok
                   THEN CompilerRuns ELSE {NoRun}) :
        \E run2 \in (IF run1.kind = "process" /\ run1.duration <= Timeout
                       /\ run1.returncode = 0
                    THEN CompilerRuns ELSE {NoRun}) :
          /\ AtMenu
          /\ Exported(export_cover_letter(cover_letter_data, fs, write_ok,
                                          run1, run2))

ShowSavedFiles ==
    \E delete \in BOOLEAN :
      /\ AtMenu
      /\ cli_console' = <<"Saved Files">>
                        \o (IF delete THEN <<"CV deleted">> ELSE <<>>)
      /\ last' = [op |-> "show_saved_files", result |-> "None"]
      /\ NoCreateCall
      /\ UNCHANGED <<api_key, cv_text, job_listing, cover_letter_data, running,
                     generated>>

DisplayResumeMarkdown ==
    /\ AtMenu
    /\ cli_console' = IF cv_text = "" THEN <<"No CV/Resume available!">>
                      ELSE <<"CV/Resume Preview", cv_text>>
    /\ last' = [op |-> "display_resume_markdown", result |-> "None"]
    /\ NoCreateCall
    /\ UNCHANGED <<api_key, cv_text, job_listing, cover_letter_data, running,
                   generated>>

Exit ==
    /\ AtMenu
    /\ cli_console' = <<"Goodbye!">>
    /\ running' = FALSE
    /\ last' = [op |-> "exit", result |-> "None"]
    /\ NoCreateCall
    /\ UNCHANGED <<api_key, cv_text, job_listing, cover_letter_data, generated>>

InvalidChoice ==
    /\ AtMenu
    /\ cli_console' = <<"Invalid choice. Please enter a number between 1 and 9.">>
    /\ last' = [op |-> "invalid", result |-> "None"]
    /\ NoCreateCall
    /\ UNCHANGED <<api_key, cv_text, job_listing, cover_letter_data, running,
                   generated>>

NextCLI ==
    \/ GetCvInput
    \/ GetJobInput
    \/ GetCustomInstruction
    \/ GenerateCoverLetter
    \/ DisplayCoverLetter
    \/ ExportCoverLetter
    \/ ShowSavedFiles
    \/ DisplayResumeMarkdown
    \/ Exit
    \/ InvalidChoice

SpecCLI == InitCLI /\ [][NextCLI]_vars

(***************************************************************************)
(* Properties of create and compile_to_pdf_pdflatex                        *)
(***************************************************************************)
Called == ret.kind # "none"

LatexPathOfCall == path_str(Path(output_dir, args.filename, ".tex"))

PdfPathOfCall == resolve_str(path_str(Path(output_dir, args.filename, ".pdf")))

\* the first compiler invocation exited with 0 and the pdf was there afterwards
FirstPassSuccess ==
    /\ Len(calls) >= 1
    /\ calls[1].exc = ""
    /\ calls[1].returncode = 0
    /\ calls[1].pdf_exists

\* the first compiler invocation was made and was not such a success
FirstPassFailure == Len(calls) >= 1 /\ ~FirstPassSuccess

SecondPassFailed ==
    /\ Len(calls) = 2
    /\ (calls[2].exc # "" \/ calls[2].returncode # 0)

PartialResult ==
    /\ ret.kind = "return"
    /\ DOMAIN ret.value = {"latex"}
    /\ ret.value["latex"] = LatexPathOfCall

TimeoutLine == "pdflatex compilation timed out"

NotFoundLine == "pdflatex not found. Please install a LaTeX distribution:"

FailedLine == "PDF generation failed"

Printed(line) == \E i \in DOMAIN console : console[i] = line

\* C1: once the first compiler invocation has succeeded (exit code 0 and the
\* pdf exists), a failure of the second invocation of any kind is discarded:
\* create returns a result that holds the pdf path.
C1_SecondPassFailureDiscarded ==
    (FirstPassSuccess /\ SecondPassFailed) =>
        /\ ret.kind = "return"
        /\ "pdf" \in DOMAIN ret.value
        /\ ret.value["pdf"] = PdfPathOfCall

\* C2: whenever the first compiler invocation fails (executable not found,
\* timeout, non-zero exit, or exit 0 with no pdf), create returns normally,
\* and its result holds the latex path and no pdf path.
C2_CompileFailureNeverRaises == FirstPassFailure => PartialResult

C2_Witness ==
    /\ FirstPassFailure
    /\ calls[1].exc = "TimeoutExpired"
    /\ PartialResult

\* C3: when the first compiler invocation exits with 0 and the pdf does not
\* exist afterwards, create's result holds no pdf path.
C3_ExitCodeAloneIsNotSuccess ==
    (Len(calls) >= 1 /\ calls[1].exc = "" /\ calls[1].returncode = 0
        /\ ~calls[1].pdf_exists) =>
            /\ ret.kind = "return"
            /\ "pdf" \notin DOMAIN ret.value

C3_Witness ==
    /\ Len(calls) = 1
    /\ calls[1].exc = ""
    /\ calls[1].returncode = 0
    /\ ~calls[1].pdf_exists
    /\ ret.kind = "return"

\* C4: a create call with export_pdf = False makes no compiler invocation, and
\* the result it returns holds the latex path and no pdf path.
C4_NoCompileWithoutExportPdf ==
    (Called /\ ~args.export_pdf) =>
        /\ calls = <<>>
        /\ (args.write_ok => PartialResult)

C4_Witness ==
    /\ Called
    /\ ~args.export_pdf
    /\ PartialResult
    /\ LatexPathOfCall \in DOMAIN fs

\* C5 as stated: when the first compiler invocation exits non-zero, create
\* returns the latex path and no pdf path, and the compiler's output is
\* returned to the caller.
C5_DiagnosticReturned ==
    (Len(calls) >= 1 /\ calls[1].exc = "" /\ calls[1].returncode # 0) =>
        /\ ret.kind = "return"
        /\ "latex" \in DOMAIN ret.value
        /\ "pdf" \notin DOMAIN ret.value
        /\ \E k \in DOMAIN ret.value : ret.value[k] = calls[1].stdout

\* C5 as amended: when the first compiler invocation exits non-zero, create
\* returns a result that holds the latex path and nothing else; the
\* compiler's standard output is printed to the console, between the
\* failure heading and the closing rule, and is not part of the result.
C5_DiagnosticPrinted ==
    (Len(calls) >= 1 /\ calls[1].exc = "" /\ calls[1].returncode # 0) =>
        /\ PartialResult
        /\ Len(console) = 6
        /\ console[3] = FailedLine
        /\ console[5] = calls[1].stdout
        /\ \A k \in DOMAIN ret.value : ret.value[k] # calls[1].stdout

C5_Witness ==
    /\ Len(calls) = 1
    /\ calls[1].exc = ""
    /\ calls[1].returncode # 0
    /\ calls[1].stdout = "! Undefined control sequence."
    /\ Printed("! Undefined control sequence.")
    /\ PartialResult

\* C6: when the compiler does not exit within the 30 ceiling, create still
\* returns the latex path (and no pdf path), and what it reports is the
\* timeout: the timed-out line is the last line printed, and neither the
\* not-found line nor the failed line nor an unexpected-error line is
\* printed; the timed-out line is printed in no other case.
C6_TimeoutReported ==
    /\ (Len(calls) >= 1 /\ calls[1].duration > 30) =>
          /\ PartialResult
          /\ console[Len(console)] = TimeoutLine
          /\ ~Printed(NotFoundLine)
          /\ ~Printed(FailedLine)
          /\ ~Printed("An unexpected error occurred: TimeoutExpired")
    /\ Printed(TimeoutLine) => \E i \in DOMAIN calls : calls[i].duration > 30

C6_Witness ==
    /\ Len(calls) = 1
    /\ calls[1].duration > 30
    /\ calls[1].exc = "TimeoutExpired"
    /\ Printed(TimeoutLine)
    /\ PartialResult

\* C7: one create call invokes the compiler at most twice: once and no more
\* when the first invocation fails, and a second time exactly when the first
\* invocation has succeeded; both invocations have the same arguments.
C7_AtMostTwoInvocations ==
    /\ Len(calls) <= 2
    /\ FirstPassFailure => Len(calls) = 1
    /\ Len(calls) = 2 => (FirstPassSuccess /\ calls[2].argv = calls[1].argv)
    /\ FirstPassSuccess => Len(calls) = 2
    /\ (Called /\ args.export_pdf /\ args.write_ok) => Len(calls) >= 1

C7_Witness ==
    /\ Len(calls) = 2
    /\ FirstPassSuccess
    /\ ret.kind = "return"
    /\ "pdf" \in DOMAIN ret.value

\* C13: within one create call the text is generated, then written, then
\* compiled: every compiler invocation of the call names the .tex path of the
\* call and finds there the text generated from the call's letter; when
\* generating or writing fails the exception leaves create, nothing is
\* returned, and no compiler invocation is made.
C13_RenderThenSaveThenCompile ==
    Called =>
        /\ \A i \in DOMAIN calls :
              /\ calls[i].argv[5] = LatexPathOfCall
              /\ calls[i].source = <<latex_of[args.cover_letter].text>>
              /\ latex_of[args.cover_letter].exc = ""
              /\ args.write_ok
        /\ (latex_of[args.cover_letter].exc # "" \/ ~args.write_ok) =>
              /\ ret.kind = "raise"
              /\ ret.exc \in {"KeyError", "ValueError", "OSError"}
              /\ ret.value = EmptyDict
              /\ calls = <<>>
        /\ ret.kind = "return" =>
              /\ LatexPathOfCall \in DOMAIN fs
              /\ fs[LatexPathOfCall] = latex_of[args.cover_letter].text

C13_Witness ==
    /\ Called
    /\ args.export_pdf
    /\ Len(calls) = 1
    /\ calls[1].exc = "FileNotFoundError"
    /\ calls[1].source = <<latex_of[args.cover_letter].text>>
    /\ fs[LatexPathOfCall] = latex_of[args.cover_letter].text

(***************************************************************************)
(* Properties of the menu loop                                             *)
(***************************************************************************)
SavedLine(path) == "Cover letter saved to " \o path

\* the menu's last output says that the cover letter was saved
SavedAnnounced ==
    \E i \in DOMAIN cli_console :
        \E path \in {None} \cup {ret.value[k] : k \in DOMAIN ret.value} :
            cli_console[i] = SavedLine(path)

ChoseExport == last.op = "export_cover_letter"

ChoseGenerate == last.op = "generate_cover_letter"

\* C14: export_cover_letter announces that the cover letter was saved only
\* when the result of create holds a pdf path; for a result with the latex
\* path alone it makes no such announcement.
C14_SavedAnnouncedOnlyWithPdf ==
    (ChoseExport /\ SavedAnnounced) =>
        /\ ret.kind = "return"
        /\ "pdf" \in DOMAIN ret.value

\* C15: over any sequence of menu choices, create is called (and the compiler
\* started) only by export_cover_letter and only after a generate_cover_letter
\* call has returned True; a call returns True only with an API key, a
\* non-empty CV text and a non-empty job listing at that moment; and
\* export_cover_letter without a stored letter prints that there is none and
\* changes nothing else.
C15_CreateOnlyAfterGenerate ==
    [][ /\ Called' =>
              /\ ChoseExport'
              /\ generated
              /\ cover_letter_data # <<>>
              /\ args'.cover_letter = cover_letter_data[1]
        /\ calls' # <<>> => Called'
        /\ (ChoseGenerate' /\ last'.result = "True") =>
              /\ api_key # ""
              /\ cv_text # ""
              /\ job_listing # ""
        /\ generated' => (generated \/ (ChoseGenerate' /\ last'.result = "True"))
        /\ (ChoseExport' /\ cover_letter_data = <<>>) =>
              /\ ~Called'
              /\ calls' = <<>>
              /\ console' = <<>>
              /\ cli_console' = <<"No cover letter generated yet!">>
              /\ UNCHANGED <<fs, api_key, cv_text, job_listing,
                             cover_letter_data, running, generated>>
      ]_vars

C15_Witness ==
    /\ ChoseExport
    /\ Called
    /\ generated
    /\ job_listing = ""
    /\ Len(calls) = 2
    /\ ret.kind = "return"
    /\ "pdf" \in DOMAIN ret.value

\* C16: a generate_cover_letter call without a CV text or a job listing, or
\* whose model call raises, returns False and leaves cover_letter_data as it
\* was; the letter stored by an earlier successful call is the one that
\* display_cover_letter shows and export_cover_letter gives to create.
C16_FailedGenerateKeepsLetter ==
    [][ /\ (ChoseGenerate' /\ last'.result = "False") =>
              /\ cover_letter_data' = cover_letter_data
              /\ running'
        /\ (ChoseGenerate' /\ api_key # "") =>
              /\ last'.result \in {"True", "False"}
              /\ (cv_text = "" \/ job_listing = "") => last'.result = "False"
              /\ cli_console'[1] = "Error generating cover letter: quota exceeded"
                    => last'.result = "False"
        /\ (ChoseExport' /\ Called') =>
              args'.cover_letter = cover_letter_data[1]
        /\ (last'.op = "display_cover_letter" /\ cover_letter_data # <<>>) =>
              cli_console' = display_cover_letter(cover_letter_data')
      ]_vars

C16_Witness ==
    /\ ChoseGenerate
    /\ last.result = "False"
    /\ generated
    /\ cover_letter_data # <<>>
    /\ cli_console[1] = "Error generating cover letter: quota exceeded"

(***************************************************************************)
(* Properties of generate_latex and _escape_latex_safe                     *)
(***************************************************************************)
MarkupChars == {"&", "$", "#", "_", "{", "}", "~", "^"}

\* the escaped markup form of a character, the character itself if it has none
EscapedForm(c) ==
    CASE c = "&" -> <<"\\", "&">>
      [] c = "$" -> <<"\\", "$">>
      [] c = "#" -> <<"\\", "#">>
      [] c = "_" -> <<"\\", "_">>
      [] c = "{" -> <<"\\", "{">>
      [] c = "}" -> <<"\\", "}">>
      [] c = "~" -> <<"\\", "t", "e", "x", "t", "a", "s", "c", "i", "i",
                      "t", "i", "l", "d", "e", "{", "}">>
      [] c = "^" -> <<"\\", "t", "e", "x", "t", "a", "s", "c", "i", "i",
                      "c", "i", "r", "c", "u", "m", "{", "}">>
      [] OTHER -> <<c>>

\* every character of s replaced by its escaped form, in one pass
RECURSIVE CharByChar(_)
CharByChar(s) ==
    IF s = <<>> THEN <<>> ELSE EscapedForm(Head(s)) \o CharByChar(Tail(s))

\* every percent character of s written twice
RECURSIVE PercentDoubled(_)
PercentDoubled(s) ==
    IF s = <<>> THEN <<>>
    ELSE (IF Head(s) = "%" THEN <<"%", "%">> ELSE <<Head(s)>>)
         \o PercentDoubled(Tail(s))

Infix(sub, s) ==
    \E i \in 0..(Len(s) - Len(sub)) : SubSeq(s, i + 1, i + Len(sub)) = sub

SafeFieldSet ==
    {"opening_salutation", "opening_paragraph", "second_paragraph",
     "closing_paragraph", "closing_salutation", "signoff_paragraph",
     "email", "linkedin", "github"}

EscapedFieldSet ==
    {"name", "phone", "address", "role", "company", "position", "recipient",
     "source", "company_news"}

FieldValue(key) ==
    IF key \in DOMAIN cover_letter.contact THEN cover_letter.contact[key]
    ELSE IF key \in DOMAIN cover_letter.company THEN cover_letter.company[key]
    ELSE cover_letter.content[key]

Rendered == pc = "done" /\ latex_content.exc = ""

\* C8: for each of name, phone, address, role, company, position, recipient,
\* source, company_news, the text generate_latex puts into the template is
\* the field's value with every one of & $ # _ { } ~ ^ in its escaped form
\* (and every percent doubled), character by character.
C8_UnsafeFieldsEscaped ==
    pc = "done" =>
        /\ latex_content.exc = ""
        /\ EscapedFieldSet \subseteq DOMAIN processed_data
        /\ \A key \in EscapedFieldSet :
              /\ processed_data[key] = PercentDoubled(CharByChar(FieldValue(key)))
              /\ Infix(processed_data[key], latex_content.text)

C8_Witness ==
    /\ Rendered
    /\ cover_letter.contact["name"] = <<"#", "~">>
    /\ processed_data["name"] =
          <<"\\", "#", "\\", "t", "e", "x", "t", "a", "s", "c", "i", "i",
            "t", "i", "l", "d", "e", "{", "}">>

\* C9: for each of the six content fields and email, linkedin, github, the
\* text generate_latex puts into the template is the field's value with no
\* character escaped and every percent character written twice.
C9_SafeFieldsOnlyPercentDoubled ==
    pc = "done" =>
        /\ latex_content.exc = ""
        /\ SafeFieldSet \subseteq DOMAIN processed_data
        /\ \A key \in SafeFieldSet :
              /\ processed_data[key] = PercentDoubled(FieldValue(key))
              /\ Infix(processed_data[key], latex_content.text)

C9_Witness ==
    /\ Rendered
    /\ cover_letter.contact["email"] = <<"_", "%">>
    /\ processed_data["email"] = <<"_", "%", "%">>

\* C10: _escape_latex_safe(text) is text with each of & $ # _ { } ~ ^ replaced
\* by its escaped form in one pass, every other character kept: nothing a
\* replacement wrote is escaped again, and a text with none of the eight
\* characters comes back unchanged.
C10_EscapeIsCharByChar ==
    pc = "done" =>
        /\ escaped = CharByChar(text)
        /\ (\A i \in DOMAIN text : text[i] \notin MarkupChars) => escaped = text

C10_Witness ==
    /\ pc = "done"
    /\ text = <<"{", "~">>
    /\ escaped = <<"\\", "{", "\\", "t", "e", "x", "t", "a", "s", "c", "i", "i",
                   "t", "i", "l", "d", "e", "{", "}">>

\* the placeholder names of the template contract
TemplateFieldNames ==
    {"name", "address", "phone", "email", "linkedin", "github", "role",
     "position", "company", "source", "company_news", "recipient",
     "opening_salutation", "opening_paragraph", "second_paragraph",
     "closing_paragraph", "closing_salutation", "signoff_paragraph"}

\* C11: generate_latex never fails: the three sub-records share no attribute
\* name, the flattened mapping has exactly the 18 attribute names as keys,
\* these are exactly the keys the template names, and the substitution ends
\* with neither a KeyError nor a formatting error.
C11_RenderIsTotal ==
    /\ DOMAIN cover_letter.contact \cap DOMAIN cover_letter.company = {}
    /\ DOMAIN cover_letter.contact \cap DOMAIN cover_letter.content = {}
    /\ DOMAIN cover_letter.company \cap DOMAIN cover_letter.content = {}
    /\ pc = "done" =>
          /\ DOMAIN processed_data = TemplateFieldNames
          /\ Cardinality(DOMAIN processed_data) = 18
          /\ placeholders(LATEX_TEMPLATE) = DOMAIN processed_data
          /\ latex_content.exc = ""

C11_Witness ==
    /\ pc = "done"
    /\ cover_letter.company["company_news"] = <<"%", "}">>
    /\ latex_content.exc = ""
    /\ Infix(<<"%", "%", "\\", "}">>, latex_content.text)
=============================================================================
